---------------------------- MODULE Spec2Model ----------------------------
(***************************************************************************)
(* Graph RAG: a knowledge graph (kg.py) built from seed data (data.py),    *)
(* an entity detector (query.py), a context renderer (rag.py) and the      *)
(* five-stage workflow (graph.py).                                         *)
(*                                                                         *)
(* Python strings are TLA+ strings, handled character by character with    *)
(* Len, SubSeq and \o.  A dict is a function whose DOMAIN is its key set;  *)
(* the empty dict is << >>.  A list is a sequence.                         *)
(***************************************************************************)
EXTENDS Integers, Sequences, FiniteSets, TLC

VARIABLES
    seeds,      \* data.py: [PEOPLE, COMPANIES, RELATIONSHIPS]
    KG,         \* the nx.MultiDiGraph, NoGraph before it is built
    call,       \* the last GraphStore call and what it returned
    tr,         \* the locals of the running traverse_from_node call
    expanded,   \* history: node ids in the order they were expanded
    ctx_facts,  \* all_facts of build_context_node over the one traversal
    LLM_CLIENT, \* graph.py: the module-level client, None when there is none
    state,      \* the GraphRAGState of the running workflow invocation
    stage,      \* the workflow node that runs next: "idle", a node, "invoking"
                \* while generate_answer is inside LLM_CLIENT.invoke, or END
    executed,   \* history: the nodes this invocation has run, in order
    llm_calls,  \* history: this invocation's calls of LLM_CLIENT.invoke, each with the
                \* prompt passed and what the call did
    invocations \* the run_graph_rag calls in progress side by side on the one KG:
                \* for each, its own GraphRAGState, the node that runs next,
                \* (history) its calls of LLM_CLIENT.invoke and (history)
                \* whether a node of another call ran between its nodes

storeVars == <<seeds, KG, call>>
traverseVars == <<tr, expanded, ctx_facts>>
workflowVars == <<LLM_CLIENT, state, stage, executed, llm_calls, invocations>>
vars == <<seeds, KG, call, tr, expanded, ctx_facts, LLM_CLIENT, state, stage, executed,
         llm_calls, invocations>>

-----------------------------------------------------------------------------
(* Bounds of the model.                                                    *)

MaxRelSeeds == 2      \* relationship seeds drawn for the GraphStore runs
MaxEdges == 3         \* relationship seeds drawn for the traversal runs
MaxDepth == 2         \* largest depth argument of traverse_from_node
MaxWords == 3         \* words in a question given to detect_entities on its own

-----------------------------------------------------------------------------
(* Python's str and list primitives.                                       *)

UpperChars == "ABCDEFGHIJKLMNOPQRSTUVWXYZ"
LowerChars == "abcdefghijklmnopqrstuvwxyz"

CharAt(s, i) == SubSeq(s, i, i)

IsUpper(c) == \E i \in 1..Len(UpperChars) : CharAt(UpperChars, i) = c
IsLower(c) == \E i \in 1..Len(LowerChars) : CharAt(LowerChars, i) = c

LowerChar(c) ==
    IF IsUpper(c)
    THEN CharAt(LowerChars, CHOOSE i \in 1..Len(UpperChars) : CharAt(UpperChars, i) = c)
    ELSE c

\* str.lower(), character by character (the string is halved, not peeled, to
\* keep the evaluation shallow)
RECURSIVE lower(_)
lower(s) ==
    IF Len(s) = 0 THEN ""
    ELSE IF Len(s) = 1 THEN LowerChar(s)
    ELSE lower(SubSeq(s, 1, Len(s) \div 2)) \o lower(SubSeq(s, Len(s) \div 2 + 1, Len(s)))

\* the `in` operator on two strings: sub occurs in s as a contiguous run
StrIn(sub, s) ==
    \E i \in 1..(Len(s) - Len(sub) + 1) : SubSeq(s, i, i + Len(sub) - 1) = sub

\* dict.get(key, default)
Get(d, key, default) == IF key \in DOMAIN d THEN d[key] ELSE default

\* str(None), the text every use of a missing name renders
None == "None"

\* the distinct elements of a sequence, in order of first occurrence (dict keys)
RECURSIVE KeysLoop(_, _)
KeysLoop(s, acc) ==
    IF s = << >> THEN acc
    ELSE KeysLoop(Tail(s),
                  IF \E i \in 1..Len(acc) : acc[i] = Head(s)
                  THEN acc ELSE Append(acc, Head(s)))

Keys(s) == KeysLoop(s, << >>)

\* the concatenation of a sequence of sequences
RECURSIVE Flatten(_)
Flatten(ss) == IF ss = << >> THEN << >> ELSE Head(ss) \o Flatten(Tail(ss))

-----------------------------------------------------------------------------
(* kg.py: the graph.  nodes is G.nodes in insertion order, edges the edges *)
(* in the order add_edge was called; the adjacency views are derived.      *)

NoGraph == [nodes |-> << >>, edges |-> << >>, built |-> FALSE]

HasNode(G, id) == \E i \in 1..Len(G.nodes) : G.nodes[i].id = id

\* G.nodes[id]: the attribute dict of a node
NodeData(G, id) == (CHOOSE i \in 1..Len(G.nodes) : G.nodes[i].id = id)
NodeAttrs(G, id) == G.nodes[NodeData(G, id)].data

\* G.add_node(id, **record), over all the node seeds: the attribute dict of a
\* node is its record; a later record of the same id updates the earlier one;
\* a node that no record declares has no attributes
node_attrs_of(records, id) ==
    LET mine == SelectSeq(records, LAMBDA r : r.id = id)
        latest(k) == CHOOSE i \in 1..Len(mine) :
                         /\ k \in DOMAIN mine[i]
                         /\ \A j \in (i + 1)..Len(mine) : k \notin DOMAIN mine[j]
    IN  [k \in UNION {DOMAIN mine[i] : i \in 1..Len(mine)} |-> mine[latest(k)][k]]

\* G.add_edge(u, v, relation=rel, **attrs): the edge data holds the relation
\* and the attributes
edge_of(r) ==
    [source |-> r[1], target |-> r[2],
     data |-> [k \in {"relation"} \cup DOMAIN r[4] |->
                  IF k = "relation" THEN r[3] ELSE r[4][k]]]

\* kg.py lines 15-29.  G.nodes keeps the order in which ids were first added:
\* the people, the companies, and then (add_edge adds an endpoint that is no
\* node yet, source before target, and raises no error) the endpoints that
\* no record declared, in the order the relationships name them.
create_knowledge_graph(people, companies, relationships) ==
    LET records == people \o companies
        added == [i \in 1..Len(records) |-> records[i].id]
                    \o Flatten([i \in 1..Len(relationships) |->
                                   <<relationships[i][1], relationships[i][2]>>])
        ids == Keys(added)
    IN  [nodes |-> [i \in 1..Len(ids) |->
                       [id |-> ids[i], data |-> node_attrs_of(records, ids[i])]],
         edges |-> [i \in 1..Len(relationships) |-> edge_of(relationships[i])],
         built |-> TRUE]

\* list(G.successors(n)) and list(G.predecessors(n)): each neighbour once, in
\* the order its first edge was added
EdgesFrom(G, n) == SelectSeq(G.edges, LAMBDA e : e.source = n)
EdgesInto(G, n) == SelectSeq(G.edges, LAMBDA e : e.target = n)

successors(G, n) ==
    LET es == EdgesFrom(G, n) IN Keys([i \in 1..Len(es) |-> es[i].target])

predecessors(G, n) ==
    LET es == EdgesInto(G, n) IN Keys([i \in 1..Len(es) |-> es[i].source])

\* G.out_edges(n, data=True): neighbour by neighbour, and for each neighbour
\* its parallel edges in the order they were added; G.in_edges likewise
out_edges(G, n) ==
    LET succ == successors(G, n)
    IN  Flatten([i \in 1..Len(succ) |->
                    SelectSeq(G.edges, LAMBDA e : e.source = n /\ e.target = succ[i])])

in_edges(G, n) ==
    LET pred == predecessors(G, n)
    IN  Flatten([i \in 1..Len(pred) |->
                    SelectSeq(G.edges, LAMBDA e : e.target = n /\ e.source = pred[i])])

\* {k: v for k, v in data.items() if k != "relation"}
attributes_of(data) == [k \in (DOMAIN data) \ {"relation"} |-> data[k]]

\* variant: only names that contain the query
get_node_by_name_one_way(G, name) ==
    LET name_lower == lower(name)
        hit(node) == StrIn(name_lower, lower(Get(node.data, "name", "")))
        matches == SelectSeq(G.nodes, hit)
    IN  [i \in 1..Len(matches) |-> <<matches[i].id, matches[i].data>>]
\* kg.py lines 32-45: name contains the query, or the query contains the name
get_node_by_name(G, name) ==
    LET name_lower == lower(name)
        hit(node) ==
            LET node_name == lower(Get(node.data, "name", ""))
            IN  StrIn(name_lower, node_name) \/ StrIn(node_name, name_lower)
        matches == SelectSeq(G.nodes, hit)
    IN  [i \in 1..Len(matches) |-> <<matches[i].id, matches[i].data>>]

OutgoingFact(G, node_id, e) ==
    [direction |-> "outgoing",
     source |-> node_id,
     source_name |-> Get(NodeAttrs(G, node_id), "name", None),
     target |-> e.target,
     target_name |-> Get(NodeAttrs(G, e.target), "name", None),
     relation |-> Get(e.data, "relation", None),
     attributes |-> attributes_of(e.data)]

IncomingFact(G, node_id, e) ==
    [direction |-> "incoming",
     source |-> e.source,
     source_name |-> Get(NodeAttrs(G, e.source), "name", None),
     target |-> node_id,
     target_name |-> Get(NodeAttrs(G, node_id), "name", None),
     relation |-> Get(e.data, "relation", None),
     attributes |-> attributes_of(e.data)]

\* variant: only the edges that leave the node are reported
get_node_relationships_outgoing(G, node_id) ==
    LET outs == out_edges(G, node_id)
    IN  [i \in 1..Len(outs) |-> OutgoingFact(G, node_id, outs[i])]
\* kg.py lines 48-80: the outgoing facts, then the incoming facts
get_node_relationships(G, node_id) ==
    LET outs == out_edges(G, node_id)
        ins == in_edges(G, node_id)
    IN  [i \in 1..Len(outs) |-> OutgoingFact(G, node_id, outs[i])]
            \o [i \in 1..Len(ins) |-> IncomingFact(G, node_id, ins[i])]

\* variant: the visited set is not consulted
skip_depth_only(current_id, current_depth, visited, depth) == current_depth > depth
\* kg.py line 95: the popped entry is dropped without being expanded
skip(current_id, current_depth, visited, depth) ==
    current_id \in visited \/ current_depth > depth

\* variant: the head stays on the queue
peek0(to_visit) == to_visit
\* kg.py line 93: to_visit.pop(0) takes the head off the queue
pop0(to_visit) == Tail(to_visit)

\* variant: neighbours are enqueued at the depth limit too
may_enqueue_at_limit(current_depth, depth) == current_depth <= depth
\* kg.py line 105: neighbours are enqueued below the depth limit only
may_enqueue(current_depth, depth) == current_depth < depth

\* variant: the walk follows edges forwards only
successors_only(G, n) == successors(G, n)
\* kg.py line 106: list(G.successors(current_id)) + list(G.predecessors(current_id))
neighbors_of(G, n) == successors(G, n) \o predecessors(G, n)

\* kg.py lines 93-108: one iteration of the while loop on the locals t
traverse_iteration(G, t) ==
    LET current_id == Head(t.to_visit)[1]
        current_depth == Head(t.to_visit)[2]
        rest == pop0(t.to_visit)
    IN  IF skip(current_id, current_depth, t.visited, t.depth)
        THEN [t EXCEPT !.to_visit = rest]
        ELSE LET visited == t.visited \cup {current_id}
                 rels == get_node_relationships(G, current_id)
                 neighbors == neighbors_of(G, current_id)
                 fresh == SelectSeq(neighbors, LAMBDA n : n \notin visited)
             IN  [t EXCEPT !.visited = visited,
                           !.facts = @ \o rels,
                           !.to_visit =
                               IF may_enqueue(current_depth, t.depth)
                               THEN rest \o [i \in 1..Len(fresh) |->
                                                <<fresh[i], current_depth + 1>>]
                               ELSE rest]

\* kg.py line 114: the deduplication key of a fact
fact_key(fact) == <<fact.source, fact.target, fact.relation>>

\* kg.py lines 111-117: the first fact of every key, in order
RECURSIVE unique_loop(_, _, _)
unique_loop(facts, seen, unique_facts) ==
    IF facts = << >> THEN unique_facts
    ELSE LET fact == Head(facts)
             key == fact_key(fact)
         IN  IF key \notin seen
             THEN unique_loop(Tail(facts), seen \cup {key}, Append(unique_facts, fact))
             ELSE unique_loop(Tail(facts), seen, unique_facts)

\* variant: the collected facts are returned as they are
remove_duplicates_forgotten(facts) == facts
remove_duplicates(facts) == unique_loop(facts, {}, << >>)

\* kg.py lines 88-90: the locals before the loop
traverse_locals(node_id, depth) ==
    [node_id |-> node_id, depth |-> depth, pc |-> "loop", visited |-> {},
     facts |-> << >>, to_visit |-> << <<node_id, 0>> >>, unique_facts |-> << >>]

RECURSIVE traverse_loop(_, _)
traverse_loop(G, t) ==
    IF t.to_visit = << >> THEN t ELSE traverse_loop(G, traverse_iteration(G, t))

\* kg.py lines 83-123: the whole call, as the workflow makes it
traverse_from_node(G, node_id, depth) ==
    LET t == traverse_loop(G, traverse_locals(node_id, depth))
    IN  [start_node |-> node_id,
         visited_nodes |-> t.visited,
         facts |-> remove_duplicates(t.facts)]

\* variant: the relation label is left out of the key
context_key_endpoints(fact) == <<fact.source, fact.target>>
\* graph.py line 152: the key of the second deduplication
context_key(fact) == <<fact.source, fact.target, fact.relation>>

\* graph.py lines 148-155: all_facts over the traversal results
RECURSIVE collect_loop(_, _, _)
collect_loop(facts, seen, all_facts) ==
    IF facts = << >> THEN all_facts
    ELSE LET fact == Head(facts)
             key == context_key(fact)
         IN  IF key \notin seen
             THEN collect_loop(Tail(facts), seen \cup {key}, Append(all_facts, fact))
             ELSE collect_loop(Tail(facts), seen, all_facts)

\* variant: the facts of the traversals are put one after another, all kept
collect_all_facts(traversals) ==
    Flatten([i \in 1..Len(traversals) |-> traversals[i].facts])
\* graph.py lines 147-155: all_facts of build_context_node
collect_unique_facts(traversals) ==
    collect_loop(Flatten([i \in 1..Len(traversals) |-> traversals[i].facts]),
                 {}, << >>)

-----------------------------------------------------------------------------
(* data.py: the seed data of the shipped graph.                            *)

PEOPLE ==
    << [id |-> "p1", name |-> "Elon Musk", type |-> "person", role |-> "CEO"],
       [id |-> "p2", name |-> "Sam Altman", type |-> "person", role |-> "CEO"],
       [id |-> "p3", name |-> "Satya Nadella", type |-> "person", role |-> "CEO"],
       [id |-> "p4", name |-> "Jensen Huang", type |-> "person", role |-> "CEO"],
       [id |-> "p5", name |-> "Demis Hassabis", type |-> "person", role |-> "CEO"] >>

COMPANIES ==
    << [id |-> "c1", name |-> "Tesla", type |-> "company", industry |-> "automotive"],
       [id |-> "c2", name |-> "SpaceX", type |-> "company", industry |-> "aerospace"],
       [id |-> "c3", name |-> "OpenAI", type |-> "company", industry |-> "AI"],
       [id |-> "c4", name |-> "Microsoft", type |-> "company", industry |-> "technology"],
       [id |-> "c5", name |-> "NVIDIA", type |-> "company", industry |-> "semiconductors"],
       [id |-> "c6", name |-> "DeepMind", type |-> "company", industry |-> "AI"],
       [id |-> "c7", name |-> "Google", type |-> "company", industry |-> "technology"],
       [id |-> "c8", name |-> "Neuralink", type |-> "company",
        industry |-> "neurotechnology"] >>

RELATIONSHIPS ==
    << <<"p1", "c1", "founded", [year |-> 2003]>>,
       <<"p1", "c2", "founded", [year |-> 2002]>>,
       <<"p1", "c8", "founded", [year |-> 2016]>>,
       <<"p1", "c1", "leads", [role |-> "CEO"]>>,
       <<"p1", "c2", "leads", [role |-> "CEO"]>>,
       <<"p2", "c3", "leads", [role |-> "CEO"]>>,
       <<"p2", "c3", "co_founded", [year |-> 2015]>>,
       <<"p3", "c4", "leads", [role |-> "CEO"]>>,
       <<"p4", "c5", "founded", [year |-> 1993]>>,
       <<"p4", "c5", "leads", [role |-> "CEO"]>>,
       <<"p5", "c6", "founded", [year |-> 2010]>>,
       <<"p5", "c6", "leads", [role |-> "CEO"]>>,
       <<"c4", "c3", "invested_in", [amount |-> "$13B", year |-> 2023]>>,
       <<"c4", "c3", "partners_with", [type |-> "strategic"]>>,
       <<"c7", "c6", "acquired", [year |-> 2014]>>,
       <<"c5", "c3", "supplies", [product |-> "GPUs"]>>,
       <<"c5", "c4", "partners_with", [type |-> "hardware"]>> >>

-----------------------------------------------------------------------------
(* query.py: entity detection.                                             *)

KNOWN_ENTITIES ==
    << "elon musk", "elon", "musk",
       "sam altman", "sam", "altman",
       "satya nadella", "satya", "nadella",
       "jensen huang", "jensen", "huang",
       "demis hassabis", "demis", "hassabis",
       "tesla", "spacex", "openai", "microsoft", "nvidia", "deepmind", "google",
       "neuralink" >>

NAME_ALIASES ==
    [elon |-> "elon musk", musk |-> "elon musk",
     sam |-> "sam altman", altman |-> "sam altman",
     satya |-> "satya nadella", nadella |-> "satya nadella",
     jensen |-> "jensen huang", huang |-> "jensen huang",
     demis |-> "demis hassabis", hassabis |-> "demis hassabis"]

PersonSurnames == <<"musk", "altman", "nadella", "huang", "hassabis">>

UpperChar(c) ==
    IF IsLower(c)
    THEN CharAt(UpperChars, CHOOSE i \in 1..Len(LowerChars) : CharAt(LowerChars, i) = c)
    ELSE c

\* str.title(): a letter is upper-cased after a character that is no letter
\* (or at the start) and lower-cased after a letter
TitleChar(s, i) ==
    IF i > 1 /\ (IsUpper(CharAt(s, i - 1)) \/ IsLower(CharAt(s, i - 1)))
    THEN LowerChar(CharAt(s, i))
    ELSE UpperChar(CharAt(s, i))

RECURSIVE TitleRange(_, _, _)
TitleRange(s, from, to) ==
    IF from > to THEN ""
    ELSE IF from = to THEN TitleChar(s, from)
    ELSE TitleRange(s, from, (from + to) \div 2)
             \o TitleRange(s, (from + to) \div 2 + 1, to)

title(s) == TitleRange(s, 1, Len(s))

\* sorted(KNOWN_ENTITIES, key=len, reverse=True): longest first, entries of
\* equal length in their original order (the sort is stable)
InsertByLen(sorted, e) ==
    IF \E i \in 1..Len(sorted) : Len(sorted[i]) < Len(e)
    THEN LET at == CHOOSE i \in 1..Len(sorted) :
                       /\ Len(sorted[i]) < Len(e)
                       /\ \A j \in 1..(i - 1) : Len(sorted[j]) >= Len(e)
         IN  SubSeq(sorted, 1, at - 1) \o <<e>> \o SubSeq(sorted, at, Len(sorted))
    ELSE Append(sorted, e)

RECURSIVE SortedLoop(_, _)
SortedLoop(entities, sorted) ==
    IF entities = << >> THEN sorted
    ELSE SortedLoop(Tail(entities), InsertByLen(sorted, Head(entities)))

\* variant: the catalog with the shortest surface forms first
shortest_first_entities ==
    LET longest_first == SortedLoop(KNOWN_ENTITIES, << >>)
    IN  [i \in 1..Len(longest_first) |-> longest_first[Len(longest_first) + 1 - i]]
\* query.py line 53: sorted(KNOWN_ENTITIES, key=len, reverse=True)
sorted_entities == SortedLoop(KNOWN_ENTITIES, << >>)

\* variant: every entity is taken for a company
entity_type_company(full_name) == "company"
\* query.py lines 64-66
entity_type_of(full_name) ==
    IF \E i \in 1..Len(PersonSurnames) : StrIn(PersonSurnames[i], full_name)
    THEN "person" ELSE "company"

\* variant: a canonical name is taken as new every time
is_new_always(full_name, seen_names) == TRUE
\* query.py line 60: the canonical name has not been emitted yet
is_new(full_name, seen_names) == full_name \notin seen_names

\* query.py lines 55-72: the scan over the sorted catalog
RECURSIVE DetectLoop(_, _, _, _)
DetectLoop(entities, question_lower, seen_names, detected) ==
    IF entities = << >> THEN detected
    ELSE LET entity == Head(entities)
             full_name == Get(NAME_ALIASES, entity, entity)
         IN  IF StrIn(entity, question_lower) /\ is_new(full_name, seen_names)
             THEN DetectLoop(Tail(entities), question_lower,
                             seen_names \cup {full_name},
                             Append(detected,
                                    [name |-> title(full_name),
                                     type |-> entity_type_of(full_name),
                                     matched_text |-> entity]))
             ELSE DetectLoop(Tail(entities), question_lower, seen_names, detected)

detect_entities(question) ==
    DetectLoop(sorted_entities, lower(question), {}, << >>)

-----------------------------------------------------------------------------
(* rag.py: rendering facts as text.                                        *)

\* str.join
RECURSIVE Join(_, _)
Join(sep, parts) ==
    IF parts = << >> THEN ""
    ELSE IF Len(parts) = 1 THEN parts[1]
    ELSE parts[1] \o sep \o Join(sep, Tail(parts))

\* str.split("\n"): the pieces between consecutive newlines
split_lines(s) ==
    LET breaks == {i \in 1..Len(s) : CharAt(s, i) = "\n"}
        nth(k) == IF k = 0 THEN 0
                  ELSE IF k > Cardinality(breaks) THEN Len(s) + 1
                  ELSE CHOOSE i \in breaks : Cardinality({j \in breaks : j < i}) = k - 1
    IN  [k \in 1..(Cardinality(breaks) + 1) |-> SubSeq(s, nth(k - 1) + 1, nth(k) - 1)]

\* rag.py lines 18-29: the templated clause of a relation
Templates ==
    [founded |-> " founded ", co_founded |-> " co-founded ", leads |-> " leads ",
     works_at |-> " works at ", invested_in |-> " invested in ",
     acquired |-> " acquired ", partners_with |-> " partners with ",
     supplies |-> " supplies to "]

templated_clause(source, relation, target) ==
    IF relation \in DOMAIN Templates
    THEN source \o Templates[relation] \o target
    ELSE source \o " " \o relation \o " " \o target

\* variant: the role fragment is added for every relation
attr_parts_with_role_always(relation, attrs) ==
    (IF "year" \in DOMAIN attrs THEN <<"in " \o ToString(attrs["year"])>> ELSE << >>)
    \o (IF "amount" \in DOMAIN attrs THEN <<"(" \o attrs["amount"] \o ")">> ELSE << >>)
    \o (IF "role" \in DOMAIN attrs THEN <<"as " \o attrs["role"]>> ELSE << >>)
    \o (IF "product" \in DOMAIN attrs THEN <<"(" \o attrs["product"] \o ")">> ELSE << >>)
\* rag.py lines 32-40: the detail fragments, in their fixed order
attr_parts_of(relation, attrs) ==
    (IF "year" \in DOMAIN attrs THEN <<"in " \o ToString(attrs["year"])>> ELSE << >>)
    \o (IF "amount" \in DOMAIN attrs THEN <<"(" \o attrs["amount"] \o ")">> ELSE << >>)
    \o (IF "role" \in DOMAIN attrs /\ relation = "leads"
        THEN <<"as " \o attrs["role"]>> ELSE << >>)
    \o (IF "product" \in DOMAIN attrs THEN <<"(" \o attrs["product"] \o ")">> ELSE << >>)

\* rag.py lines 8-45
format_single_fact(fact) ==
    LET sentence == templated_clause(fact.source_name, fact.relation, fact.target_name)
        attr_parts == attr_parts_of(fact.relation, Get(fact, "attributes", << >>))
    IN  IF attr_parts # << >>
        THEN sentence \o " " \o Join(" ", attr_parts)
        ELSE sentence

NoContextSentinel == "No relevant information found in the knowledge graph."

\* rag.py lines 55-70: the header, the title line and one line per fact
render_facts(facts, entities) ==
    LET header ==
            IF entities # << >>
            THEN << "Information about: "
                        \o Join(", ", [i \in 1..Len(entities) |-> entities[i].name]),
                    "" >>
            ELSE << >>
        sentences == [i \in 1..Len(facts) |-> "- " \o format_single_fact(facts[i])]
    IN  Join("\n", header \o <<"Known facts:">> \o sentences)

\* variant: an empty fact list is rendered like any other
build_context_without_sentinel(facts, entities) == render_facts(facts, entities)
\* rag.py lines 48-70
build_context(facts, entities) ==
    IF facts = << >> THEN NoContextSentinel ELSE render_facts(facts, entities)

-----------------------------------------------------------------------------
(* graph.py: the workflow.  Log texts are those of the source with the     *)
(* characters outside ASCII (pictographs, the arrow) deleted.               *)

DefaultDepth == 1     \* graph.py line 123: traverse_from_node(KG, node_id, depth=1)
LogFactLimit == 5     \* graph.py line 131: traversal["facts"][:5]
PreviewLimit == 8     \* graph.py line 164: context.split("\n")[:8]

END == "__end__"

\* graph.py lines 18-35: init_llm assigns a client to the module-level
\* LLM_CLIENT when GROQ_API_KEY is set and langchain_groq can be imported,
\* and leaves LLM_CLIENT as it is otherwise
init_llm(client, available) == IF available THEN "ChatGroq" ELSE client

\* graph.py lines 252-260
initial_state(question) ==
    [question |-> question, detected_entities |-> << >>, matched_nodes |-> << >>,
     traversal_results |-> << >>, context |-> "", answer |-> "", debug_logs |-> << >>]

NoState == initial_state("")

\* variant: debug_logs is replaced like every other key
apply_update_replacing(old, update) ==
    [k \in DOMAIN old |-> IF k \in DOMAIN update THEN update[k] ELSE old[k]]
\* graph.py line 50: debug_logs is Annotated with operator.add, every other key
\* of the state is replaced by the value a node returns
apply_update(old, update) ==
    [k \in DOMAIN old |->
        IF k \in DOMAIN update
        THEN IF k = "debug_logs" THEN old[k] \o update[k] ELSE update[k]
        ELSE old[k]]

\* list[:n]
Take(s, n) == SubSeq(s, 1, IF Len(s) < n THEN Len(s) ELSE n)

\* graph.py lines 57-79
detect_entities_node(st) ==
    LET question == st.question
        entities == detect_entities(question)
        logs == << "\n STEP 1: Entity Detection",
                   "   Question: " \o question,
                   "   Detected " \o ToString(Len(entities)) \o " entities:" >>
                \o [i \in 1..Len(entities) |->
                       "   - " \o entities[i].name \o " (" \o entities[i].type \o ")"]
                \o (IF entities = << >> THEN <<"     No entities detected">> ELSE << >>)
    IN  [detected_entities |-> entities, debug_logs |-> logs]

\* graph.py lines 82-109
retrieve_nodes_node(G, st) ==
    LET entities == st.detected_entities
        found(i) == get_node_by_name(G, entities[i].name)
        matched_nodes ==
            Flatten([i \in 1..Len(entities) |->
                        [j \in 1..Len(found(i)) |->
                            [node_id |-> found(i)[j][1],
                             data |-> found(i)[j][2],
                             matched_entity |-> entities[i].name]]])
        logs == <<"\n STEP 2: Node Retrieval">>
                \o [i \in 1..Len(matched_nodes) |->
                       "   Found: " \o Get(matched_nodes[i].data, "name", None)
                           \o " (ID: " \o matched_nodes[i].node_id \o ")"]
                \o (IF matched_nodes = << >>
                    THEN <<"     No matching nodes found in graph">>
                    ELSE <<"   Total nodes matched: " \o ToString(Len(matched_nodes))>>)
    IN  [matched_nodes |-> matched_nodes, debug_logs |-> logs]

\* graph.py lines 126-132: the log lines of one traversal
traversal_logs(node, traversal) ==
    LET shown == Take(traversal.facts, LogFactLimit)
    IN  << "   Traversing from: " \o Get(node.data, "name", None),
           "   - Visited " \o ToString(Cardinality(traversal.visited_nodes)) \o " nodes",
           "   - Found " \o ToString(Len(traversal.facts)) \o " relationships" >>
        \o [i \in 1..Len(shown) |->
               "      " \o shown[i].source_name \o " --[" \o shown[i].relation
                   \o "]--> " \o shown[i].target_name]

\* graph.py lines 112-137
traverse_relationships_node(G, st) ==
    LET matched_nodes == st.matched_nodes
        all_traversals ==
            [i \in 1..Len(matched_nodes) |->
                traverse_from_node(G, matched_nodes[i].node_id, DefaultDepth)]
        logs == <<"\n STEP 3: Graph Traversal">>
                \o Flatten([i \in 1..Len(matched_nodes) |->
                               traversal_logs(matched_nodes[i], all_traversals[i])])
    IN  [traversal_results |-> all_traversals, debug_logs |-> logs]

\* graph.py lines 140-170
build_context_node(st) ==
    LET all_facts == collect_unique_facts(st.traversal_results)
        context == build_context(all_facts, st.detected_entities)
        preview == Take(split_lines(context), PreviewLimit)
        logs == << "\n STEP 4: Context Building",
                   "   Unique facts collected: " \o ToString(Len(all_facts)),
                   "   Context preview:" >>
                \o [i \in 1..Len(preview) |-> "   | " \o preview[i]]
    IN  [context |-> context, debug_logs |-> logs]

NoInformationAnswer ==
    "I couldn't find any relevant information in the knowledge graph to answer your question."

\* graph.py lines 194-203: the prompt given to the client
prompt_of(context, question) ==
    "You are a helpful assistant answering questions based on a knowledge graph.\n"
    \o "Use ONLY the provided context to answer. Be concise and direct.\n"
    \o "If the context doesn't contain enough information, say so.\n\n"
    \o "Context from knowledge graph:\n" \o context \o "\n\n"
    \o "Question: " \o question \o "\n\nAnswer:"

\* graph.py lines 186-190: the answer when there is no client
raw_context_answer(context) ==
    "[LLM not available - showing raw context]\n\n" \o context
    \o "\n\nSet GROQ_API_KEY environment variable to enable LLM responses."

\* variant: the degraded answer carries the error note only
error_answer_without_context(e, context) == "Error generating response: " \o e
\* graph.py line 210: the degraded answer when the client's call raised e
error_answer(e, context) ==
    "Error generating response: " \o e \o "\n\nRaw context:\n" \o context

\* graph.py lines 173-216.  reply is what LLM_CLIENT.invoke(prompt) does when it
\* is called: it returns a response with this content, or raises this error
generate_answer_node(client, st, reply) ==
    LET context == st.context
        header == <<"\n STEP 5: Answer Generation (Groq LLM)">>
    IN  IF StrIn("No relevant information", context)
        THEN [answer |-> NoInformationAnswer,
              debug_logs |-> header \o <<"   No context available, skipping LLM">>]
        ELSE IF client = None
        THEN [answer |-> raw_context_answer(context),
              debug_logs |->
                  header \o <<"     LLM not available (missing API key or package)">>]
        ELSE IF reply.raised
        THEN [answer |-> error_answer(reply.text, context),
              debug_logs |-> header \o <<"    LLM error: " \o reply.text>>]
        ELSE [answer |-> reply.text,
              debug_logs |-> header \o <<"    LLM response generated successfully">>]

\* variant: the client is called whether or not there is one
calls_llm_without_client(client, st) == ~StrIn("No relevant information", st.context)
\* graph.py line 182, 185: the branches that call the client
calls_llm(client, st) ==
    ~StrIn("No relevant information", st.context) /\ client # None

\* graph.py lines 227-231: the nodes of the workflow, in the order added
Pipeline ==
    <<"detect_entities", "retrieve_nodes", "traverse_relationships",
      "build_context", "generate_answer">>

StageNames == {Pipeline[i] : i \in 1..Len(Pipeline)}

\* graph.py lines 234-239: the entry point and the edges of the workflow
entry_point == "detect_entities"

next_node(node) ==
    IF node = "detect_entities" THEN "retrieve_nodes"
    ELSE IF node = "retrieve_nodes" THEN "traverse_relationships"
    ELSE IF node = "traverse_relationships" THEN "build_context"
    ELSE IF node = "build_context" THEN "generate_answer"
    ELSE END

\* two callers of run_graph_rag at the same time
Invocations == {"a", "b"}

\* no call of run_graph_rag is in progress
NoInvocations ==
    [i \in Invocations |->
        [state |-> NoState, stage |-> "idle", llm_calls |-> << >>, interleaved |-> FALSE]]

-----------------------------------------------------------------------------
(* Inputs of the GraphStore runs: node seeds whose names overlap in both   *)
(* directions and in case, relationship seeds with parallel edges, a       *)
(* self-loop and endpoints that no node seed declares.                     *)

\* every sequence over S of length at most n
SeqsUpTo(S, n) == UNION {[1..k -> S] : k \in 0..n}

\* every sequence over S without repetition
InjSeqs(S) ==
    UNION {{s \in [1..k -> S] : \A i, j \in 1..k : s[i] = s[j] => i = j} :
              k \in 0..Cardinality(S)}

StorePeople ==
    {[id |-> "p1", name |-> "Ab", type |-> "person", role |-> "CEO"],
     [id |-> "p2", name |-> "b", type |-> "person", role |-> "CEO"]}

StoreCompanies ==
    {[id |-> "c1", name |-> "aB C", type |-> "company", industry |-> "AI"]}

StoreRelationships ==
    {<<"p1", "c1", "founded", [year |-> 2003]>>,
     <<"p1", "c1", "founded", [year |-> 2004]>>,
     <<"p1", "c1", "leads", [role |-> "CEO"]>>,
     <<"c1", "p1", "supplies", << >> >>,
     <<"p1", "p1", "leads", << >> >>,
     <<"p2", "zz", "founded", << >> >>,
     <<"zz", "p1", "acquired", [year |-> 2014]>>}

StoreQueries == {"", "B", "ab", "b c", "AB CD", "x"}

NoCall == [op |-> "none", arg |-> "", ret |-> << >>]
NoTraversal ==
    [node_id |-> "", depth |-> 0, pc |-> "idle", visited |-> {}, facts |-> << >>,
     to_visit |-> << >>, unique_facts |-> << >>]

NodeIds(G) == {G.nodes[i].id : i \in 1..Len(G.nodes)}

InitStore ==
    /\ seeds \in [PEOPLE : {p \in InjSeqs(StorePeople) : Len(p) = Cardinality(StorePeople)},
                  COMPANIES : InjSeqs(StoreCompanies),
                  RELATIONSHIPS : SeqsUpTo(StoreRelationships, MaxRelSeeds)]
    /\ KG = NoGraph
    /\ call = NoCall
    /\ tr = NoTraversal
    /\ expanded = << >>
    /\ ctx_facts = << >>
    /\ LLM_CLIENT = None
    /\ state = NoState
    /\ stage = "idle"
    /\ executed = << >>
    /\ llm_calls = << >>
    /\ invocations = NoInvocations

\* graph.py line 54: KG = create_knowledge_graph()
BuildGraph ==
    /\ ~KG.built
    /\ KG' = create_knowledge_graph(seeds.PEOPLE, seeds.COMPANIES, seeds.RELATIONSHIPS)
    /\ UNCHANGED <<seeds, call, tr, expanded, ctx_facts, workflowVars>>

FindNodesByName(name) ==
    /\ KG.built
    /\ call' = [op |-> "get_node_by_name", arg |-> name,
                ret |-> get_node_by_name(KG, name)]
    /\ UNCHANGED <<seeds, KG, tr, expanded, ctx_facts, workflowVars>>

RelationshipsOf(node_id) ==
    /\ KG.built
    /\ call' = [op |-> "get_node_relationships", arg |-> node_id,
                ret |-> get_node_relationships(KG, node_id)]
    /\ UNCHANGED <<seeds, KG, tr, expanded, ctx_facts, workflowVars>>

NextStore ==
    \/ BuildGraph
    \/ \E name \in StoreQueries : FindNodesByName(name)
    \/ \E node_id \in NodeIds(KG) : RelationshipsOf(node_id)

SpecStore == InitStore /\ [][NextStore]_vars

-----------------------------------------------------------------------------
(* One traverse_from_node call, iteration by iteration, on every graph     *)
(* built from up to MaxEdges relationship seeds over three declared nodes: *)
(* parallel edges, a two-cycle, a three-cycle and a self-loop occur.       *)

TraversePeople ==
    << [id |-> "p1", name |-> "Elon Musk", type |-> "person", role |-> "CEO"] >>

TraverseCompanies ==
    << [id |-> "c1", name |-> "Tesla", type |-> "company", industry |-> "automotive"],
       [id |-> "c2", name |-> "SpaceX", type |-> "company", industry |-> "aerospace"] >>

TraverseRelationships ==
    {<<"p1", "c1", "founded", [year |-> 2003]>>,
     <<"p1", "c1", "founded", [year |-> 2004]>>,
     <<"p1", "c1", "leads", [role |-> "CEO"]>>,
     <<"c1", "p1", "supplies", [product |-> "GPUs"]>>,
     <<"c1", "c2", "partners_with", [type |-> "strategic"]>>,
     <<"c2", "p1", "invested_in", [amount |-> "$13B", year |-> 2023]>>,
     <<"c1", "c1", "acquired", << >> >>}

InitTraverse ==
    /\ seeds \in [PEOPLE : {TraversePeople},
                  COMPANIES : {TraverseCompanies},
                  RELATIONSHIPS : SeqsUpTo(TraverseRelationships, MaxEdges)]
    /\ KG = create_knowledge_graph(seeds.PEOPLE, seeds.COMPANIES, seeds.RELATIONSHIPS)
    /\ call = NoCall
    /\ tr = NoTraversal
    /\ expanded = << >>
    /\ ctx_facts = << >>
    /\ LLM_CLIENT = None
    /\ state = NoState
    /\ stage = "idle"
    /\ executed = << >>
    /\ llm_calls = << >>
    /\ invocations = NoInvocations

\* kg.py lines 88-90
StartTraverse(node_id, depth) ==
    /\ tr.pc = "idle"
    /\ tr' = traverse_locals(node_id, depth)
    /\ UNCHANGED <<seeds, KG, call, expanded, ctx_facts, workflowVars>>

\* kg.py lines 93-96: the popped entry is visited already, or too deep
TraverseSkip ==
    /\ tr.pc = "loop"
    /\ tr.to_visit # << >>
    /\ skip(Head(tr.to_visit)[1], Head(tr.to_visit)[2], tr.visited, tr.depth)
    /\ tr' = traverse_iteration(KG, tr)
    /\ UNCHANGED <<seeds, KG, call, expanded, ctx_facts, workflowVars>>

\* kg.py lines 93-108: the popped entry is expanded
TraverseExpand ==
    /\ tr.pc = "loop"
    /\ tr.to_visit # << >>
    /\ ~skip(Head(tr.to_visit)[1], Head(tr.to_visit)[2], tr.visited, tr.depth)
    /\ tr' = traverse_iteration(KG, tr)
    /\ expanded' = Append(expanded, Head(tr.to_visit)[1])
    /\ UNCHANGED <<seeds, KG, call, ctx_facts, workflowVars>>

\* kg.py lines 110-123: the queue is empty, the facts are deduplicated
TraverseReturn ==
    /\ tr.pc = "loop"
    /\ tr.to_visit = << >>
    /\ tr' = [tr EXCEPT !.pc = "done", !.unique_facts = remove_duplicates(tr.facts)]
    /\ UNCHANGED <<seeds, KG, call, expanded, ctx_facts, workflowVars>>

\* graph.py lines 147-155 on the result of this one traversal
CollectUniqueFacts ==
    /\ tr.pc = "done"
    /\ ctx_facts' = collect_unique_facts(<< [start_node |-> tr.node_id,
                                             visited_nodes |-> tr.visited,
                                             facts |-> tr.unique_facts] >>)
    /\ tr' = [tr EXCEPT !.pc = "collected"]
    /\ UNCHANGED <<seeds, KG, call, expanded, workflowVars>>

NextTraverse ==
    \/ \E node_id \in NodeIds(KG), depth \in 0..MaxDepth : StartTraverse(node_id, depth)
    \/ TraverseSkip
    \/ TraverseExpand
    \/ TraverseReturn
    \/ CollectUniqueFacts

SpecTraverse == InitTraverse /\ [][NextTraverse]_vars

\* the loop is sequential code: an iteration that can run does run
FairTraverse == SpecTraverse /\ WF_vars(NextTraverse)

-----------------------------------------------------------------------------
(* The workflow on the shipped graph: run_graph_rag is called with one     *)
(* question after another, with or without a client, whose call may fail.  *)

Questions ==
    {"", "hello", "Who runs Open AI and Space X?",
     "What companies did Elon Musk found?",
     "Who leads OpenAI?",
     "What is the relationship between Microsoft and OpenAI?",
     "Tell me about NVIDIA",
     "Who founded DeepMind?",
     "Did Musk or Elon Musk fund SAM ALTMAN?",
     "is samsung bigger than google",
     "jensen huang, satya nadella and demis hassabis at neuralink, tesla and spacex"}

\* what the try block around LLM_CLIENT.invoke sees: a response with some
\* content, an exception of the transport, or a response without content,
\* on which response.content raises
LLMReplies ==
    {[raised |-> FALSE, text |-> "Elon Musk founded Tesla, SpaceX and Neuralink."],
     [raised |-> TRUE, text |-> "Connection error."],
     [raised |-> TRUE, text |-> "'NoneType' object has no attribute 'content'"]}

NoReply == [raised |-> FALSE, text |-> ""]

Init ==
    /\ seeds = [PEOPLE |-> PEOPLE, COMPANIES |-> COMPANIES,
                RELATIONSHIPS |-> RELATIONSHIPS]
    /\ KG = create_knowledge_graph(seeds.PEOPLE, seeds.COMPANIES, seeds.RELATIONSHIPS)
    /\ call = NoCall
    /\ tr = NoTraversal
    /\ expanded = << >>
    /\ ctx_facts = << >>
    /\ LLM_CLIENT \in {init_llm(None, available) : available \in BOOLEAN}
    /\ state = NoState
    /\ stage = "idle"
    /\ executed = << >>
    /\ llm_calls = << >>
    /\ invocations = NoInvocations

\* graph.py lines 244-263: a new invocation starts from a fresh state
RunGraphRag(question) ==
    /\ stage \in {"idle", END}
    /\ state' = initial_state(question)
    /\ stage' = entry_point
    /\ executed' = << >>
    /\ llm_calls' = << >>
    /\ UNCHANGED <<storeVars, traverseVars, LLM_CLIENT, invocations>>

\* a node runs, its update is merged into the state, the edge is followed
RunNode(node, update) ==
    /\ state' = apply_update(state, update)
    /\ stage' = next_node(node)
    /\ executed' = Append(executed, node)
    /\ UNCHANGED <<storeVars, traverseVars, LLM_CLIENT, invocations>>

DetectEntitiesNode ==
    /\ stage = "detect_entities"
    /\ RunNode(stage, detect_entities_node(state))
    /\ UNCHANGED llm_calls

RetrieveNodesNode ==
    /\ stage = "retrieve_nodes"
    /\ RunNode(stage, retrieve_nodes_node(KG, state))
    /\ UNCHANGED llm_calls

TraverseRelationshipsNode ==
    /\ stage = "traverse_relationships"
    /\ RunNode(stage, traverse_relationships_node(KG, state))
    /\ UNCHANGED llm_calls

BuildContextNode ==
    /\ stage = "build_context"
    /\ RunNode(stage, build_context_node(state))
    /\ UNCHANGED llm_calls

\* graph.py lines 182-191: the answer is made without calling the client
GenerateWithoutLLM ==
    /\ stage = "generate_answer"
    /\ ~calls_llm(LLM_CLIENT, state)
    /\ RunNode(stage, generate_answer_node(LLM_CLIENT, state, NoReply))
    /\ UNCHANGED llm_calls

\* graph.py lines 192-206: the prompt is built from the state and handed to
\* LLM_CLIENT.invoke; the node waits inside the call
GenerateCallsLLM ==
    /\ stage = "generate_answer"
    /\ calls_llm(LLM_CLIENT, state)
    /\ stage' = "invoking"
    /\ llm_calls' = Append(llm_calls, [prompt |-> prompt_of(state.context, state.question),
                                        reply |-> NoReply])
    /\ UNCHANGED <<storeVars, traverseVars, LLM_CLIENT, state, executed, invocations>>

\* graph.py lines 206-216: the call returns a response or raises, and the
\* node returns its update
GenerateWithLLM(reply) ==
    /\ stage = "invoking"
    /\ RunNode("generate_answer", generate_answer_node(LLM_CLIENT, state, reply))
    /\ llm_calls' = [llm_calls EXCEPT ![Len(llm_calls)].reply = reply]

\* graph.py lines 18-35: init_llm is called again, by any importer of the
\* module and at any time
InitLLM(available) ==
    /\ LLM_CLIENT' = init_llm(LLM_CLIENT, available)
    /\ UNCHANGED <<storeVars, traverseVars, state, stage, executed, llm_calls, invocations>>

Next ==
    \/ \E question \in Questions : RunGraphRag(question)
    \/ DetectEntitiesNode
    \/ RetrieveNodesNode
    \/ TraverseRelationshipsNode
    \/ BuildContextNode
    \/ GenerateWithoutLLM
    \/ GenerateCallsLLM
    \/ \E reply \in LLMReplies : GenerateWithLLM(reply)
    \/ \E available \in BOOLEAN : InitLLM(available)

Spec == Init /\ [][Next]_vars

\* the step of a node that runs up to its end, or up to the client's call
NodeRunsToCall == stage \in StageNames /\ stage' \in {next_node(stage), "invoking"}

\* graph.py line 263: app.invoke runs the nodes one after another in the
\* calling thread, so the node that is due does run, up to its end or up to
\* the client's call.  graph.py line 206 calls LLM_CLIENT.invoke(prompt)
\* with no timeout, and init_llm (line 25) builds the client with a model
\* and a temperature only: nothing makes a call of the client return, and
\* no fairness is put on the step in which it does.
FairUnresponsive == Spec /\ WF_stage(NodeRunsToCall)

-----------------------------------------------------------------------------
(* The workflow on other seed data: data.py is a sample dataset, and node  *)
(* names and relation labels are whatever the seeds hold.                  *)

SeededGraphs ==
    {[PEOPLE |-> PEOPLE, COMPANIES |-> COMPANIES, RELATIONSHIPS |-> RELATIONSHIPS],
     [PEOPLE |-> <<[id |-> "p1", name |-> "Elon Musk", type |-> "person", role |-> "CEO"]>>,
      COMPANIES |-> <<[id |-> "c1", name |-> "Tesla", type |-> "company",
                       industry |-> "automotive"]>>,
      RELATIONSHIPS |-> <<<<"p1", "c1", "founded", [year |-> 2003]>>>>],
     [PEOPLE |-> <<[id |-> "p1", name |-> "No relevant information", type |-> "person",
                    role |-> "CEO"]>>,
      COMPANIES |-> <<[id |-> "c1", name |-> "Tesla", type |-> "company",
                       industry |-> "automotive"]>>,
      RELATIONSHIPS |-> <<<<"p1", "c1", "founded", [year |-> 2003]>>>>],
     [PEOPLE |-> <<[id |-> "p1", name |-> "Elon Musk", type |-> "person", role |-> "CEO"]>>,
      COMPANIES |-> <<[id |-> "c1", name |-> "Tesla", type |-> "company",
                       industry |-> "automotive"]>>,
      RELATIONSHIPS |-> <<<<"p1", "c1", "says No relevant information about", << >> >>>>]}

InitSeeded ==
    /\ seeds \in SeededGraphs
    /\ KG = create_knowledge_graph(seeds.PEOPLE, seeds.COMPANIES, seeds.RELATIONSHIPS)
    /\ call = NoCall
    /\ tr = NoTraversal
    /\ expanded = << >>
    /\ ctx_facts = << >>
    /\ LLM_CLIENT \in {init_llm(None, available) : available \in BOOLEAN}
    /\ state = NoState
    /\ stage = "idle"
    /\ executed = << >>
    /\ llm_calls = << >>
    /\ invocations = NoInvocations

SpecSeeded == InitSeeded /\ [][Next]_vars

-----------------------------------------------------------------------------
(* detect_entities and format_single_fact called on their own, on          *)
(* questions put together from a few words and on facts with every         *)
(* combination of attributes.                                              *)

QuestionWords ==
    {"elon musk", "Elon", "MUSK", "Sam Altman", "altman", "samsung", "OpenAI", "and"}

DetectQuestions ==
    {Join(" ", words) : words \in SeqsUpTo(QuestionWords, MaxWords)}

AttributePool ==
    [year |-> 2003, amount |-> "$13B", role |-> "CEO", product |-> "GPUs",
     type |-> "strategic"]

FormatRelations == DOMAIN Templates \cup {"mentors"}

FormatFacts ==
    {[source_name |-> "Elon Musk", target_name |-> "Tesla", relation |-> relation,
      attributes |-> [k \in keys |-> AttributePool[k]]] :
        relation \in FormatRelations, keys \in SUBSET DOMAIN AttributePool}
    \cup {[source_name |-> "Elon Musk", target_name |-> "Tesla", relation |-> relation] :
             relation \in FormatRelations}

InitFunctions ==
    /\ seeds = [PEOPLE |-> PEOPLE, COMPANIES |-> COMPANIES,
                RELATIONSHIPS |-> RELATIONSHIPS]
    /\ KG = NoGraph
    /\ call = NoCall
    /\ tr = NoTraversal
    /\ expanded = << >>
    /\ ctx_facts = << >>
    /\ LLM_CLIENT = None
    /\ state = NoState
    /\ stage = "idle"
    /\ executed = << >>
    /\ llm_calls = << >>
    /\ invocations = NoInvocations

\* the functions are pure: one call from the initial state shows all a call does
DetectEntitiesCall(question) ==
    /\ call = NoCall
    /\ call' = [op |-> "detect_entities", arg |-> question,
                ret |-> detect_entities(question)]
    /\ UNCHANGED <<seeds, KG, traverseVars, workflowVars>>

FormatSingleFactCall(fact) ==
    /\ call = NoCall
    /\ call' = [op |-> "format_single_fact", arg |-> fact,
                ret |-> format_single_fact(fact)]
    /\ UNCHANGED <<seeds, KG, traverseVars, workflowVars>>

NextFunctions ==
    \/ \E question \in DetectQuestions : DetectEntitiesCall(question)
    \/ \E fact \in FormatFacts : FormatSingleFactCall(fact)

SpecFunctions == InitFunctions /\ [][NextFunctions]_vars

-----------------------------------------------------------------------------
(* Properties of the GraphStore, checked under SpecStore.                  *)

DeclaredIds ==
    {seeds.PEOPLE[i].id : i \in 1..Len(seeds.PEOPLE)}
        \cup {seeds.COMPANIES[i].id : i \in 1..Len(seeds.COMPANIES)}

\* the edges of KG that touch node n, by their position in KG.edges
Touching(n) ==
    {i \in 1..Len(KG.edges) : KG.edges[i].source = n \/ KG.edges[i].target = n}

\* fact f is the fact of edge e seen from node n
FactOfEdge(f, e, n) ==
    /\ f.source = e.source
    /\ f.target = e.target
    /\ f.relation = e.data.relation
    /\ f.attributes = attributes_of(e.data)
    /\ \/ f.direction = "outgoing" /\ e.source = n
       \/ f.direction = "incoming" /\ e.target = n

\* C6: get_node_relationships(G, n) returns exactly one fact for each edge
\* touching n (parallel edges each counted, self-loops included), tagged
\* outgoing when n is the edge's source and incoming when n is its target,
\* with the edge's endpoints as source and target.
C6_OneFactPerTouchingEdge ==
    call.op = "get_node_relationships" =>
        \E f \in [1..Len(call.ret) -> Touching(call.arg)] :
            /\ \A i, j \in 1..Len(call.ret) : f[i] = f[j] => i = j
            /\ \A e \in Touching(call.arg) : \E i \in 1..Len(call.ret) : f[i] = e
            /\ \A i \in 1..Len(call.ret) :
                   FactOfEdge(call.ret[i], KG.edges[f[i]], call.arg)

\* C7: create_knowledge_graph fails when a relationship seed names a source
\* or target that no node seed declares, so every edge of a built graph has
\* declared endpoints.
C7_BuildRejectsUndeclaredEndpoints ==
    KG.built =>
        /\ \A i \in 1..Len(seeds.RELATIONSHIPS) :
               /\ seeds.RELATIONSHIPS[i][1] \in DeclaredIds
               /\ seeds.RELATIONSHIPS[i][2] \in DeclaredIds
        /\ \A i \in 1..Len(KG.edges) :
               /\ KG.edges[i].source \in DeclaredIds
               /\ KG.edges[i].target \in DeclaredIds

\* node i of KG matches the query under the mutual-substring rule
MutualSubstring(i, query) ==
    LET node_name == lower(Get(KG.nodes[i].data, "name", ""))
    IN  StrIn(lower(query), node_name) \/ StrIn(node_name, lower(query))

PositionOf(id) == CHOOSE i \in 1..Len(KG.nodes) : KG.nodes[i].id = id

\* C8: get_node_by_name(G, query) returns exactly the nodes whose lowercased
\* name contains the lowercased query or is contained in it, each once, in
\* node insertion order, and no other node.
C8_FindNodesByNameExact ==
    call.op = "get_node_by_name" =>
        LET ret == call.ret IN
        /\ \A j \in 1..Len(ret) :
               /\ ret[j][1] \in NodeIds(KG)
               /\ MutualSubstring(PositionOf(ret[j][1]), call.arg)
               /\ ret[j][2] = KG.nodes[PositionOf(ret[j][1])].data
        /\ \A i \in 1..Len(KG.nodes) :
               MutualSubstring(i, call.arg) =>
                   Cardinality({j \in 1..Len(ret) : ret[j][1] = KG.nodes[i].id}) = 1
        /\ \A j, k \in 1..Len(ret) :
               j < k => PositionOf(ret[j][1]) < PositionOf(ret[k][1])

\* a query that is longer than the name it matches, while another node is
\* not matched at all
C8_Witness ==
    /\ call.op = "get_node_by_name"
    /\ \E j \in 1..Len(call.ret) :
           ~StrIn(lower(call.arg), lower(Get(call.ret[j][2], "name", "")))
    /\ Len(call.ret) >= 2
    /\ Len(call.ret) < Len(KG.nodes)

-----------------------------------------------------------------------------
(* Properties of traverse_from_node, checked under SpecTraverse.           *)

Returned == tr.pc \in {"done", "collected"}

HasSelfLoop == \E i \in 1..Len(KG.edges) : KG.edges[i].source = KG.edges[i].target

HasCycle ==
    \E i, j \in 1..Len(KG.edges) :
        /\ KG.edges[i].source # KG.edges[i].target
        /\ KG.edges[i].source = KG.edges[j].target
        /\ KG.edges[i].target = KG.edges[j].source

HasParallelEdges ==
    \E i, j \in 1..Len(KG.edges) :
        /\ i < j
        /\ KG.edges[i].source = KG.edges[j].source
        /\ KG.edges[i].target = KG.edges[j].target

\* C1: on every finite graph, cycles, self-loops and parallel edges
\* included, from every start node and for every depth >= 0, the traversal
\* terminates: the work queue becomes empty and a result is returned.
C1_TraverseTerminates == <>(tr.pc = "done" /\ tr.to_visit = << >>)

\* a traversal at the largest depth that returned after walking a cycle and
\* a self-loop
C1_Witness ==
    /\ tr.pc = "done"
    /\ tr.to_visit = << >>
    /\ tr.depth = MaxDepth
    /\ HasCycle /\ HasSelfLoop
    /\ Cardinality(tr.visited) >= 2

\* C2: during one traversal no node is expanded more than once, even when
\* its id is in the work queue several times.
C2_NoNodeExpandedTwice ==
    \A i, j \in 1..Len(expanded) : expanded[i] = expanded[j] => i = j

\* the entry at the head of the queue names a node that was expanded before
\* and could still be expanded at its depth: the node was enqueued twice
C2_Witness ==
    /\ tr.pc = "loop"
    /\ tr.to_visit # << >>
    /\ Head(tr.to_visit)[2] <= tr.depth
    /\ \E k \in 1..Len(expanded) : expanded[k] = Head(tr.to_visit)[1]

\* the first fact of every key of a fact list, as a subsequence
FirstOfKey(facts, i) ==
    \A j \in 1..(i - 1) :
        <<facts[j].source, facts[j].target, facts[j].relation>>
            # <<facts[i].source, facts[i].target, facts[i].relation>>

FirstByKey(facts) == SelectSeq([i \in 1..Len(facts) |-> <<i, facts[i]>>],
                               LAMBDA p : FirstOfKey(facts, p[1]))

\* C3: with depth 0 the traversal returns the visited set {start} and
\* exactly the deduplicated facts of get_node_relationships(G, start); no
\* fact of an edge that does not touch the start node, and no neighbour is
\* ever put on the queue.
C3_DepthZeroSelfFactsOnly ==
    (tr.pc # "idle" /\ tr.depth = 0) =>
        /\ \A i \in 1..Len(tr.to_visit) : tr.to_visit[i] = <<tr.node_id, 0>>
        /\ Len(tr.to_visit) <= 1
        /\ Returned =>
               LET rels == get_node_relationships(KG, tr.node_id)
                   first == FirstByKey(rels)
               IN  /\ tr.visited = {tr.node_id}
                   /\ tr.unique_facts = [i \in 1..Len(first) |-> first[i][2]]
                   /\ \A i \in 1..Len(tr.unique_facts) :
                          \/ tr.unique_facts[i].source = tr.node_id
                          \/ tr.unique_facts[i].target = tr.node_id

\* a depth-0 traversal that returned facts of a node that has neighbours and
\* an edge elsewhere in the graph
C3_Witness ==
    /\ tr.pc = "done"
    /\ tr.depth = 0
    /\ Len(tr.unique_facts) >= 2
    /\ Len(successors(KG, tr.node_id)) + Len(predecessors(KG, tr.node_id)) >= 1
    /\ \E i \in 1..Len(KG.edges) :
           KG.edges[i].source # tr.node_id /\ KG.edges[i].target # tr.node_id

\* the position at which a key was first discovered in the raw fact list
FirstDiscovery(facts, f) ==
    CHOOSE i \in 1..Len(facts) :
        /\ <<facts[i].source, facts[i].target, facts[i].relation>>
               = <<f.source, f.target, f.relation>>
        /\ FirstOfKey(facts, i)

\* C4: the returned fact list holds no two facts with the same (source,
\* target, relation) key, and its facts are discovered facts, in the order in
\* which their keys were first discovered by the walk.
C4_UniqueKeysInDiscoveryOrder ==
    Returned =>
        LET u == tr.unique_facts IN
        /\ \A i, j \in 1..Len(u) :
               (u[i].source = u[j].source /\ u[i].target = u[j].target
                    /\ u[i].relation = u[j].relation) => i = j
        /\ \A i \in 1..Len(u) : \E k \in 1..Len(tr.facts) : tr.facts[k] = u[i]
        /\ \A i, j \in 1..Len(u) :
               i < j => FirstDiscovery(tr.facts, u[i]) < FirstDiscovery(tr.facts, u[j])

\* a traversal whose raw fact list repeated a key, from two endpoints and
\* from parallel edges
C4_Witness ==
    /\ tr.pc = "done"
    /\ Len(tr.unique_facts) >= 2
    /\ Len(tr.facts) >= Len(tr.unique_facts) + 2
    /\ HasParallelEdges

\* C5: deduplication by key is idempotent: applied to a deduplicated list it
\* returns the same list in the same order, so the deduplication of
\* build_context_node leaves the result of a single traversal unchanged.
C5_DeduplicationIdempotent ==
    tr.pc = "collected" =>
        /\ ctx_facts = tr.unique_facts
        /\ remove_duplicates(tr.unique_facts) = tr.unique_facts

\* the context stage went over a traversal result in which two facts join the
\* same pair of nodes under different relations, after duplicates were removed
C5_Witness ==
    /\ tr.pc = "collected"
    /\ Len(tr.facts) > Len(tr.unique_facts)
    /\ \E i, j \in 1..Len(tr.unique_facts) :
           /\ i < j
           /\ tr.unique_facts[i].source = tr.unique_facts[j].source
           /\ tr.unique_facts[i].target = tr.unique_facts[j].target
           /\ tr.unique_facts[i].relation # tr.unique_facts[j].relation

-----------------------------------------------------------------------------
(* Properties of the workflow, over Spec and FairUnresponsive              *)

\* the node that is running or due: generate_answer while it waits for the
\* client
RunningNode == IF stage = "invoking" THEN "generate_answer" ELSE stage

\* what has run so far is a prefix of the pipeline, the stage to run next is
\* the one after that prefix, and the invocation has ended exactly when all
\* five stages have run
RanPrefixOfPipeline ==
    stage # "idle" =>
        /\ Len(executed) <= Len(Pipeline)
        /\ executed = SubSeq(Pipeline, 1, Len(executed))
        /\ (stage = END) = (executed = Pipeline)
        /\ stage # END => RunningNode = Pipeline[Len(executed) + 1]

\* C9: every invocation runs the five stages detect_entities, retrieve_nodes,
\* traverse_relationships, build_context, generate_answer exactly once each
\* and in that order, and then reaches END; no stage is skipped or repeated,
\* also when nothing was detected, matched or found.
C9_FiveStagesOnceInOrder ==
    /\ []RanPrefixOfPipeline
    /\ [](stage \in StageNames => <>(stage = END /\ executed = Pipeline))

StepHeader ==
    [detect_entities |-> "\n STEP 1: Entity Detection",
     retrieve_nodes |-> "\n STEP 2: Node Retrieval",
     traverse_relationships |-> "\n STEP 3: Graph Traversal",
     build_context |-> "\n STEP 4: Context Building",
     generate_answer |-> "\n STEP 5: Answer Generation (Groq LLM)"]

HeaderPositions(logs, node) == {i \in 1..Len(logs) : logs[i] = StepHeader[node]}

\* each stage's header occurs once in the log, and they occur in stage order
HeadersInStageOrder(logs) ==
    /\ \A node \in StageNames : Cardinality(HeaderPositions(logs, node)) = 1
    /\ \A k \in 1..(Len(Pipeline) - 1) :
          \A i \in HeaderPositions(logs, Pipeline[k]) :
             \A j \in HeaderPositions(logs, Pipeline[k + 1]) : i < j

\* C10: the trace log only grows during an invocation.  A stage that runs
\* leaves the lines already in debug_logs as they are and adds a non-empty
\* batch after them, the batch opening with that stage's header; and when
\* the invocation ends the log holds the five batches in stage order.
C10_TraceLogAppendOnly ==
    [][ /\ stage \in StageNames \cup {"invoking"} =>
            /\ Len(state'.debug_logs) >= Len(state.debug_logs)
            /\ SubSeq(state'.debug_logs, 1, Len(state.debug_logs)) = state.debug_logs
        /\ Len(executed') > Len(executed) =>
            /\ Len(state'.debug_logs) > Len(state.debug_logs)
            /\ state'.debug_logs[Len(state.debug_logs) + 1] = StepHeader[RunningNode]
        /\ stage' = END =>
            /\ state'.debug_logs[1] = StepHeader[Pipeline[1]]
            /\ HeadersInStageOrder(state'.debug_logs) ]_vars

\* an invocation that matched nodes and found facts has ended with its log
C10_Witness ==
    /\ stage = END
    /\ state.matched_nodes # << >>
    /\ \E i \in 1..Len(state.traversal_results) :
          state.traversal_results[i].facts # << >>
    /\ HeadersInStageOrder(state.debug_logs)
    /\ Len(state.debug_logs) > 2 * Len(Pipeline)

-----------------------------------------------------------------------------
(* Properties of the Generate stage                                        *)

\* the facts that build_context_node rendered in this invocation
RenderedFacts == collect_unique_facts(state.traversal_results)

\* C11: the Generate stage answers with the fixed message, without calling
\* the client, exactly when build_context produced the sentinel, which is
\* exactly when no fact was collected; and when a fact was rendered the
\* answer comes from the rendered context (the client is called with it, or
\* without a client the context is shown), whatever the names and relation
\* labels in the facts.
C11_FixedAnswerIffSentinel ==
    stage = END =>
        /\ (state.context = NoContextSentinel) = (RenderedFacts = << >>)
        /\ (state.answer = NoInformationAnswer) = (state.context = NoContextSentinel)
        /\ state.context = NoContextSentinel => llm_calls = << >>
        /\ state.context # NoContextSentinel =>
              /\ LLM_CLIENT = None => llm_calls = << >>
              /\ IF llm_calls = << >>
                 THEN StrIn(state.context, state.answer)
                 ELSE Len(llm_calls) = 1 /\ StrIn(state.context, llm_calls[1].prompt)

\* C12: when the client is called and the call fails, the failure stays
\* inside the Generate stage: the invocation has run all five stages and
\* ended, nothing after the failed call was retried, and the answer is an
\* error note with the failure's text followed by the rendered context.
C12_GeneratorFailureIsCaught ==
    (llm_calls # << >> /\ llm_calls[Len(llm_calls)].reply.raised) =>
        /\ stage = END
        /\ executed = Pipeline
        /\ Len(llm_calls) = 1
        /\ StrIn("Error generating response: " \o llm_calls[1].reply.text, state.answer)
        /\ StrIn("Raw context:\n" \o state.context, state.answer)
        /\ state.context # ""
        /\ state.debug_logs[Len(state.debug_logs)] = "    LLM error: " \o llm_calls[1].reply.text

\* an invocation whose call of the client raised has ended with facts rendered
C12_Witness ==
    /\ stage = END
    /\ llm_calls # << >>
    /\ llm_calls[1].reply.raised
    /\ RenderedFacts # << >>
    /\ StrIn("Known facts:", state.answer)

\* C13: also when the client never responds, every stage that is due is
\* followed by the end of the invocation: the Generate stage completes (a
\* timeout bounds the call) and the invocation reaches END.
C13_GenerateCompletesWhenClientSilent == [](stage \in StageNames => <>(stage = END))

\* C14: without a client (no credential, LLM_CLIENT is None) no call of the
\* generator is ever made, every invocation still runs to its end, and when
\* the context is not the sentinel the answer is the rendered context,
\* unchanged, between the fixed notice lines.
C14_NoClientNoCall ==
    LLM_CLIENT = None =>
        /\ llm_calls = << >>
        /\ stage \in {"idle", END} \cup StageNames
        /\ (stage = END /\ state.context # NoContextSentinel) =>
              /\ state.answer =
                    "[LLM not available - showing raw context]\n\n" \o state.context
                    \o "\n\nSet GROQ_API_KEY environment variable to enable LLM responses."
              /\ state.context = build_context(RenderedFacts, state.detected_entities)
              /\ state.debug_logs[Len(state.debug_logs)] =
                    "     LLM not available (missing API key or package)"

\* an invocation without a client has ended with facts rendered in the answer
C14_Witness ==
    /\ LLM_CLIENT = None
    /\ stage = END
    /\ RenderedFacts # << >>
    /\ state.context # NoContextSentinel
    /\ StrIn(state.context, state.answer)

-----------------------------------------------------------------------------
(* Properties of the empty path and of detect_entities                     *)

\* no surface form of the catalog occurs in the lowercased question
NoSurfaceForm(question) ==
    \A i \in 1..Len(KNOWN_ENTITIES) : ~StrIn(KNOWN_ENTITIES[i], lower(question))

HasRun(node) == \E i \in 1..Len(executed) : executed[i] = node

\* C15: for a question in which no catalog surface form occurs (the empty
\* question included) the emptiness passes through every stage: no entity,
\* no matched node, no traversal, the sentinel as context, and at the end
\* the fixed answer, with or without a client, which is never called; all
\* five stages run.
C15_EmptyResultPropagates ==
    (stage # "idle" /\ NoSurfaceForm(state.question)) =>
        /\ state.detected_entities = << >>
        /\ state.matched_nodes = << >>
        /\ state.traversal_results = << >>
        /\ llm_calls = << >>
        /\ stage \in StageNames \cup {END}
        /\ HasRun("build_context") => state.context = NoContextSentinel
        /\ stage = END =>
              /\ executed = Pipeline
              /\ state.answer = NoInformationAnswer

\* an invocation with a client and a non-empty question without surface
\* forms has ended
C15_Witness ==
    /\ stage = END
    /\ LLM_CLIENT # None
    /\ state.question # ""
    /\ NoSurfaceForm(state.question)
    /\ state.answer = NoInformationAnswer

\* the canonical name a surface form stands for
CanonicalOf(entity) == Get(NAME_ALIASES, entity, entity)

\* the name under which each catalog entry is emitted
EmittedName == [i \in 1..Len(KNOWN_ENTITIES) |-> title(CanonicalOf(KNOWN_ENTITIES[i]))]

\* the catalog surface forms of the mention's canonical name that occur in
\* the lowercased question
FormsIn(question, mention) ==
    LET question_lower == lower(question)
    IN  {KNOWN_ENTITIES[i] : i \in
            {j \in 1..Len(KNOWN_ENTITIES) :
                /\ EmittedName[j] = mention.name
                /\ StrIn(KNOWN_ENTITIES[j], question_lower)}}

\* C16: detect_entities never emits a canonical name twice: the names of
\* the returned mentions are pairwise distinct, also when a full name and
\* its aliases all occur in the question.
C16_CanonicalNamesDistinct ==
    call.op = "detect_entities" =>
        \A i, j \in 1..Len(call.ret) :
            call.ret[i].name = call.ret[j].name => i = j

\* a question in which a full name and both of its aliases occur, next to
\* another entity
C16_Witness ==
    /\ call.op = "detect_entities"
    /\ Len(call.ret) = 2
    /\ \E i \in 1..2 : Cardinality(FormsIn(call.arg, call.ret[i])) = 3

\* C17: the matched text of every emitted mention is a longest catalog
\* surface form of its canonical name that occurs in the lowercased
\* question; an alias is never recorded when the full name occurs too.
C17_MatchedTextIsLongestForm ==
    call.op = "detect_entities" =>
        \A i \in 1..Len(call.ret) :
            /\ call.ret[i].matched_text \in FormsIn(call.arg, call.ret[i])
            /\ \A e \in FormsIn(call.arg, call.ret[i]) :
                  Len(e) <= Len(call.ret[i].matched_text)

\* a question that opens with an alias and goes on with the full name: the
\* full name is what is recorded
C17_Witness ==
    /\ call.op = "detect_entities"
    /\ Len(call.arg) > 5
    /\ SubSeq(call.arg, 1, 5) = "MUSK "
    /\ \E i \in 1..Len(call.ret) :
          /\ call.ret[i].name = "Elon Musk"
          /\ call.ret[i].matched_text = "elon musk"

-----------------------------------------------------------------------------
(* Properties of format_single_fact, over SpecFunctions                    *)

\* the fragment an attribute contributes when it is present and counts
Fragment(fact, key, counts, before, after) ==
    IF "attributes" \in DOMAIN fact /\ key \in DOMAIN fact.attributes /\ counts
    THEN " " \o before
             \o (IF key = "year" THEN ToString(fact.attributes[key])
                 ELSE fact.attributes[key])
             \o after
    ELSE ""

\* the words that stand between source and target for a relation
ClauseWords(relation) ==
    CASE relation = "founded" -> "founded"
      [] relation = "co_founded" -> "co-founded"
      [] relation = "leads" -> "leads"
      [] relation = "works_at" -> "works at"
      [] relation = "invested_in" -> "invested in"
      [] relation = "acquired" -> "acquired"
      [] relation = "partners_with" -> "partners with"
      [] relation = "supplies" -> "supplies to"
      [] OTHER -> relation

\* C20: format_single_fact gives the relation's templated clause (source,
\* relation, target for a label outside the table), followed by the
\* fragments of the attributes that are present, always in the order year,
\* amount, role (for leads only), product; an absent attribute, a role on
\* another relation, or any other attribute adds nothing.
C20_ClauseThenFragmentsInOrder ==
    call.op = "format_single_fact" =>
        call.ret = call.arg.source_name \o " " \o ClauseWords(call.arg.relation) \o " "
                       \o call.arg.target_name
                       \o Fragment(call.arg, "year", TRUE, "in ", "")
                       \o Fragment(call.arg, "amount", TRUE, "(", ")")
                       \o Fragment(call.arg, "role", call.arg.relation = "leads", "as ", "")
                       \o Fragment(call.arg, "product", TRUE, "(", ")")

\* a fact of a relation other than leads that has every attribute, the role
\* included
C20_Witness ==
    /\ call.op = "format_single_fact"
    /\ call.arg.relation = "invested_in"
    /\ "attributes" \in DOMAIN call.arg
    /\ DOMAIN call.arg.attributes = DOMAIN AttributePool
    /\ call.ret = "Elon Musk invested in Tesla in 2003 ($13B) (GPUs)"

-----------------------------------------------------------------------------
(* Properties of the rendered facts on the shipped graph, over Spec        *)

StartNodes == {state.matched_nodes[i].node_id : i \in 1..Len(state.matched_nodes)}

\* the facts of all traversals of this invocation, one list after another
TraversedFacts ==
    Flatten([i \in 1..Len(state.traversal_results) |-> state.traversal_results[i].facts])

\* how many of the facts have these endpoints and this relation label
CountOfKey(facts, source, target, relation) ==
    Cardinality({i \in 1..Len(facts) :
                    /\ facts[i].source = source
                    /\ facts[i].target = target
                    /\ facts[i].relation = relation})

\* how many lines of the text are this line
CountOfLine(text, line) ==
    LET lines == split_lines(text)
    IN  Cardinality({i \in 1..Len(lines) : lines[i] = line})

\* C18: the fact list that build_context_node renders holds no two facts
\* with the same (source, target, relation) key, whatever the start nodes,
\* and loses no key that a traversal found; with Microsoft (c4) and OpenAI
\* (c3) both start nodes, c4 invested_in c3 and c4 partners_with c3 are
\* each in the list, and in the context, exactly once.
C18_RenderedFactsUniqueAcrossStarts ==
    HasRun("traverse_relationships") =>
        /\ \A i, j \in 1..Len(RenderedFacts) :
              (/\ RenderedFacts[i].source = RenderedFacts[j].source
               /\ RenderedFacts[i].target = RenderedFacts[j].target
               /\ RenderedFacts[i].relation = RenderedFacts[j].relation) => i = j
        /\ \A i \in 1..Len(TraversedFacts) :
              CountOfKey(RenderedFacts, TraversedFacts[i].source, TraversedFacts[i].target,
                         TraversedFacts[i].relation) = 1
        /\ HasRun("build_context") =>
              state.context = build_context(RenderedFacts, state.detected_entities)
        /\ {"c3", "c4"} \subseteq StartNodes =>
              /\ CountOfKey(RenderedFacts, "c4", "c3", "invested_in") = 1
              /\ CountOfKey(RenderedFacts, "c4", "c3", "partners_with") = 1
              /\ HasRun("build_context") =>
                    /\ CountOfLine(state.context,
                                   "- Microsoft invested in OpenAI in 2023 ($13B)") = 1
                    /\ CountOfLine(state.context, "- Microsoft partners with OpenAI") = 1

\* an invocation that started from both Microsoft and OpenAI, whose
\* traversals found the two edges between them twice, has ended
C18_Witness ==
    /\ stage = END
    /\ {"c3", "c4"} \subseteq StartNodes
    /\ CountOfKey(TraversedFacts, "c4", "c3", "invested_in") = 2
    /\ CountOfKey(TraversedFacts, "c4", "c3", "partners_with") = 2
    /\ Len(RenderedFacts) < Len(TraversedFacts)

\* the lines of the text in which the word founded stands between two names
FoundedLines(text) ==
    LET lines == split_lines(text)
    IN  {lines[i] : i \in {j \in 1..Len(lines) : StrIn(" founded ", lines[j])}}

\* C19: on the shipped graph the question "What companies did Elon Musk
\* found?" gives exactly one detected entity (Elon Musk, a person), exactly
\* one matched node, p1, a fact list of depth 1 that has p1 founded c1
\* (2003), p1 founded c2 (2002) and p1 founded c8 (2016), and a context
\* with exactly three "founded" sentences.
C19_ElonMuskFoundedThree ==
    state.question = "What companies did Elon Musk found?" =>
        /\ HasRun("detect_entities") =>
              /\ Len(state.detected_entities) = 1
              /\ state.detected_entities[1].name = "Elon Musk"
              /\ state.detected_entities[1].type = "person"
        /\ HasRun("retrieve_nodes") =>
              /\ Len(state.matched_nodes) = 1
              /\ state.matched_nodes[1].node_id = "p1"
        /\ HasRun("traverse_relationships") =>
              /\ Len(state.traversal_results) = 1
              /\ \A pair \in {<<"c1", 2003>>, <<"c2", 2002>>, <<"c8", 2016>>} :
                    \E i \in 1..Len(state.traversal_results[1].facts) :
                       LET fact == state.traversal_results[1].facts[i]
                       IN  /\ fact.source = "p1"
                           /\ fact.target = pair[1]
                           /\ fact.relation = "founded"
                           /\ fact.attributes = [year |-> pair[2]]
              /\ CountOfKey(RenderedFacts, "p1", "c1", "founded")
                   + CountOfKey(RenderedFacts, "p1", "c2", "founded")
                   + CountOfKey(RenderedFacts, "p1", "c8", "founded") = 3
              /\ \A i \in 1..Len(RenderedFacts) :
                    RenderedFacts[i].relation = "founded" => RenderedFacts[i].source = "p1"
        /\ HasRun("build_context") =>
              FoundedLines(state.context) =
                  {"- Elon Musk founded Tesla in 2003",
                   "- Elon Musk founded SpaceX in 2002",
                   "- Elon Musk founded Neuralink in 2016"}

\* the invocation with that question has ended with its context rendered
C19_Witness ==
    /\ stage = END
    /\ state.question = "What companies did Elon Musk found?"
    /\ Cardinality(FoundedLines(state.context)) = 3
    /\ Len(RenderedFacts) = 5

-----------------------------------------------------------------------------
(* The reach of traverse_from_node, checked under SpecTraverse against the *)
(* edge list of the graph.                                                 *)

\* an edge joins a and b, in one direction or the other
Adjacent(G, a, b) ==
    \E i \in 1..Len(G.edges) :
        \/ G.edges[i].source = a /\ G.edges[i].target = b
        \/ G.edges[i].source = b /\ G.edges[i].target = a

\* the nodes at undirected distance at most k from start
RECURSIVE Ball(_, _, _)
Ball(G, start, k) ==
    IF k = 0 THEN {start}
    ELSE LET inner == Ball(G, start, k - 1)
         IN  inner \cup {n \in NodeIds(G) : \E m \in inner : Adjacent(G, m, n)}

\* C22: for every graph, start node and depth >= 0 the visited set that
\* the traversal returns is exactly the set of nodes whose shortest undirected
\* distance from the start node is at most depth: none is missed for having
\* been put on the queue at a larger depth, none farther away is visited.
C22_VisitedIsDistanceBall ==
    Returned => tr.visited = Ball(KG, tr.node_id, tr.depth)

\* a depth-1 traversal that reached a neighbour against the direction of its
\* only edge to the start node and left out a node two steps away
C22_Witness ==
    /\ tr.pc = "done"
    /\ tr.depth = 1
    /\ \E n \in tr.visited :
           /\ n # tr.node_id
           /\ \A i \in 1..Len(successors(KG, tr.node_id)) :
                  successors(KG, tr.node_id)[i] # n
           /\ \E m \in NodeIds(KG) \ tr.visited : Adjacent(KG, n, m)

\* the keys of the edges that touch a node of the set
IncidentKeys(G, nodes) ==
    {<<G.edges[i].source, G.edges[i].target, G.edges[i].data.relation>> :
        i \in {j \in 1..Len(G.edges) :
                  G.edges[j].source \in nodes \/ G.edges[j].target \in nodes}}

\* C23: the set of fact keys the traversal returns is the set of (source,
\* target, relation) keys of all edges incident to a visited node, so a node
\* expanded at the depth limit contributes all its edges, those to nodes one
\* step beyond the limit, which are never visited, included.
C23_FactKeysAreIncidentEdges ==
    Returned =>
        {fact_key(tr.unique_facts[i]) : i \in 1..Len(tr.unique_facts)}
            = IncidentKeys(KG, tr.visited)

\* a returned traversal with a fact of an edge that comes into a node visited at
\* the depth limit from a node that was not visited
C23_Witness ==
    /\ tr.pc = "done"
    /\ tr.depth >= 1
    /\ \E i \in 1..Len(tr.unique_facts) :
           /\ tr.unique_facts[i].target \in tr.visited
           /\ tr.unique_facts[i].target \notin Ball(KG, tr.node_id, tr.depth - 1)
           /\ tr.unique_facts[i].source \notin tr.visited

-----------------------------------------------------------------------------
(* Two run_graph_rag calls side by side.  Each call compiles its own       *)
(* workflow and hands app.invoke its own initial_state (graph.py lines     *)
(* 248-263); the node functions read the module-level KG and LLM_CLIENT    *)
(* and write nothing outside the update they return.  A node runs as one   *)
(* step, but for generate_answer_node, which waits inside the client's     *)
(* call while the other call goes on.                                      *)

\* the questions of the two callers: two that name Elon Musk, one that names
\* other nodes, one that names none
ConcurrentQuestions ==
    {"hello",
     "Who leads OpenAI?",
     "What companies did Elon Musk found?",
     "Did Musk or Elon Musk fund SAM ALTMAN?"}

\* variant: every call works on the state of call "a"
shared_state(invs, i) == invs["a"].state
\* graph.py lines 252-263: a node of call i is given the state that app.invoke
\* threads through call i
own_state(invs, i) == invs[i].state

\* a call that has run a node and has nodes left to run
InProgress(inv) == inv.stage \in (StageNames \ {entry_point}) \cup {"invoking"}

\* graph.py lines 244-263: call i starts from a fresh state
StartInvocation(i, question) ==
    /\ invocations[i].stage \in {"idle", END}
    /\ invocations' = [invocations EXCEPT ![i] =
                           [state |-> initial_state(question), stage |-> entry_point,
                            llm_calls |-> << >>, interleaved |-> FALSE]]
    /\ UNCHANGED <<storeVars, traverseVars, LLM_CLIENT, state, stage, executed, llm_calls>>

\* the other calls, of which one that is in progress has now seen a step of
\* call i between its own
Overtaken(i) ==
    [j \in Invocations \ {i} |->
        [invocations[j] EXCEPT !.interleaved = @ \/ InProgress(invocations[j])]]

\* a node of call i runs, its update is merged into the state of call i, the
\* edge is followed
RunNodeOf(i, node, update, calls) ==
    /\ invocations' =
           [j \in Invocations |->
               IF j = i
               THEN [state |-> apply_update(own_state(invocations, i), update),
                     stage |-> next_node(node),
                     llm_calls |-> calls,
                     interleaved |-> invocations[i].interleaved]
               ELSE Overtaken(i)[j]]
    /\ UNCHANGED <<storeVars, traverseVars, LLM_CLIENT, state, stage, executed, llm_calls>>

DetectEntitiesOf(i) ==
    /\ invocations[i].stage = "detect_entities"
    /\ RunNodeOf(i, "detect_entities", detect_entities_node(own_state(invocations, i)),
                 invocations[i].llm_calls)

RetrieveNodesOf(i) ==
    /\ invocations[i].stage = "retrieve_nodes"
    /\ RunNodeOf(i, "retrieve_nodes", retrieve_nodes_node(KG, own_state(invocations, i)),
                 invocations[i].llm_calls)

TraverseRelationshipsOf(i) ==
    /\ invocations[i].stage = "traverse_relationships"
    /\ RunNodeOf(i, "traverse_relationships",
                 traverse_relationships_node(KG, own_state(invocations, i)),
                 invocations[i].llm_calls)

BuildContextOf(i) ==
    /\ invocations[i].stage = "build_context"
    /\ RunNodeOf(i, "build_context", build_context_node(own_state(invocations, i)),
                 invocations[i].llm_calls)

GenerateWithoutLLMOf(i) ==
    /\ invocations[i].stage = "generate_answer"
    /\ ~calls_llm(LLM_CLIENT, own_state(invocations, i))
    /\ RunNodeOf(i, "generate_answer",
                 generate_answer_node(LLM_CLIENT, own_state(invocations, i), NoReply),
                 invocations[i].llm_calls)

\* graph.py lines 192-206: call i hands its prompt to LLM_CLIENT.invoke and
\* waits inside the call
GenerateCallsLLMOf(i) ==
    /\ invocations[i].stage = "generate_answer"
    /\ calls_llm(LLM_CLIENT, own_state(invocations, i))
    /\ invocations' =
           [j \in Invocations |->
               IF j = i
               THEN [invocations[i] EXCEPT
                        !.stage = "invoking",
                        !.llm_calls =
                            Append(@, [prompt |-> prompt_of(own_state(invocations, i).context,
                                                            own_state(invocations, i).question),
                                       reply |-> NoReply])]
               ELSE Overtaken(i)[j]]
    /\ UNCHANGED <<storeVars, traverseVars, LLM_CLIENT, state, stage, executed, llm_calls>>

\* graph.py lines 206-216: the call of call i returns a response or raises
GenerateWithLLMOf(i, reply) ==
    /\ invocations[i].stage = "invoking"
    /\ RunNodeOf(i, "generate_answer",
                 generate_answer_node(LLM_CLIENT, own_state(invocations, i), reply),
                 [invocations[i].llm_calls EXCEPT
                     ![Len(invocations[i].llm_calls)].reply = reply])

NextConcurrent ==
    \/ \E i \in Invocations :
           \/ \E question \in ConcurrentQuestions : StartInvocation(i, question)
           \/ DetectEntitiesOf(i)
           \/ RetrieveNodesOf(i)
           \/ TraverseRelationshipsOf(i)
           \/ BuildContextOf(i)
           \/ GenerateWithoutLLMOf(i)
           \/ GenerateCallsLLMOf(i)
           \/ \E reply \in LLMReplies : GenerateWithLLMOf(i, reply)
    \/ \E available \in BOOLEAN : InitLLM(available)

SpecConcurrent == Init /\ [][NextConcurrent]_vars

\* the state after the first four nodes of a call on the graph G that runs
\* with no other call in progress
RunAlone(G, question) ==
    LET s0 == initial_state(question)
        s1 == apply_update(s0, detect_entities_node(s0))
        s2 == apply_update(s1, retrieve_nodes_node(G, s1))
        s3 == apply_update(s2, traverse_relationships_node(G, s2))
    IN  apply_update(s3, build_context_node(s3))

\* C21: no stage modifies the shared graph: its nodes, edges and attributes
\* are after any sequence of invocations what they were after construction,
\* and for any interleaving of the stages of two concurrent invocations each
\* invocation ends with the entities, matched nodes, facts and context it
\* produces when it runs alone.
C21_SharedGraphReadOnly ==
    /\ [][KG' = KG]_vars
    /\ [](\A i \in Invocations :
             invocations[i].stage = END =>
                 LET final == invocations[i].state
                     alone == RunAlone(KG, final.question)
                 IN  /\ final.detected_entities = alone.detected_entities
                     /\ final.matched_nodes = alone.matched_nodes
                     /\ final.traversal_results = alone.traversal_results
                     /\ final.context = alone.context)

\* two calls with different questions have both finished, each had nodes of
\* the other run between its own, and both walked the graph from the same node
C21_Witness ==
    /\ \A i \in Invocations :
           invocations[i].stage = END /\ invocations[i].interleaved
    /\ invocations["a"].state.question # invocations["b"].state.question
    /\ \E m \in 1..Len(invocations["a"].state.matched_nodes),
          n \in 1..Len(invocations["b"].state.matched_nodes) :
           invocations["a"].state.matched_nodes[m].node_id
               = invocations["b"].state.matched_nodes[n].node_id

=============================================================================
